---- MODULE Spec2Model ----
(***************************************************************************)
(* Machetli: first-choice hill-climbing search (machetli/search.py) over   *)
(* the successors of a planning task, with the batched evaluation driver   *)
(* _get_improving_successor and the execution environment it talks to.     *)
(*                                                                         *)
(* A search state is identified by the path of accepted successors that    *)
(* leads to it from the initial state (<<>> is the initial state, <<2>>    *)
(* the second successor of the initial state, ...).  The evaluator is a    *)
(* function of the state: `verdict' holds, for the current state, what the *)
(* evaluator answers for each successor of the generator's stream.         *)
(***************************************************************************)
EXTENDS Integers, Sequences, FiniteSets, TLC

\* ---------------------------------------------------------------- bounds
MaxSucc == 2      \* longest successor stream of a state
MaxBatch == 2     \* largest environment.batch_size
MaxDepth == 2     \* states deeper than this have an empty successor stream
MaxErrors == 1    \* SubmissionError / PollingError raised per search

\* ------------------------------------------------- EvaluationTask statuses
PENDING == "PENDING"
DONE_AND_BEHAVIOR_PRESENT == "DONE_AND_BEHAVIOR_PRESENT"
DONE_AND_BEHAVIOR_NOT_PRESENT == "DONE_AND_BEHAVIOR_NOT_PRESENT"
OUT_OF_RESOURCES == "OUT_OF_RESOURCES"
CRITICAL == "CRITICAL"
CANCELED == "CANCELED"

\* What an evaluation that runs to its end can report.
Verdicts ==
  {DONE_AND_BEHAVIOR_PRESENT, DONE_AND_BEHAVIOR_NOT_PRESENT, OUT_OF_RESOURCES, CRITICAL}

\* Python values with no TLA+ counterpart.
UNBOUND == "UNBOUND"     \* a local variable that was never assigned
NONE == "NONE"           \* None
UNEVALUATED == "UNEVALUATED"

\* Finite streams of evaluator verdicts, one per successor of a state.
VerdictStreams(n) == UNION {[1..k -> Verdicts] : k \in 0..n}

Min(a, b) == IF a < b THEN a ELSE b

VARIABLES
  deterministic,          \* search(..., deterministic)
  batch_size,             \* environment.batch_size
  pc,                     \* position of the search
  initial_status,         \* status of the evaluation of the initial state
  current_status,         \* status with which current_state's own evaluation ended
  current_state,          \* search: current_state
  verdict,                \* evaluator's verdict for each successor of current_state
  pulled,                 \* successors pulled from the stream in this iteration
  tasks,                  \* the batch: successor_id -> task.status
  cancel_requested,       \* successor_ids the environment was asked to cancel
  first_present,          \* first BehaviorPresent completion event of the batch (id + 1, 0: none)
  tasks_out_of_resources, \* _get_improving_successor: stream positions of the remembered tasks
  improving_state,        \* search: improving_state
  message,                \* search: message
  raised,                 \* exception caught by the loop in this iteration
  outcome,                \* final status of each successor of current_state in this iteration
  errors,                 \* Submission/PollingErrors raised so far
  terminating,            \* "Terminating search because ..." was logged
  started_after_error,    \* an iteration was started after that log line
  submitted,              \* the loop has submitted a candidate
  generated,              \* the loop has called get_successors
  accepted,               \* successors accepted so far
  seq_state,              \* state of a one-at-a-time evaluation in submission order
  seq_done,               \* that evaluation has returned
  \* ---- pddl/files.py: _find_domain_filename
  d_pc,                   \* position of _find_domain_filename
  task_filename,          \* basename of the file name argument, as its characters
  existing,               \* basenames for which os.path.exists holds in its directory
  domain_filename,        \* what _find_domain_filename returned
  \* ---- sas/files.py, pddl/files.py: run_evaluator
  sh_pc,                  \* position of run_evaluator
  sh_format,              \* "sas" or "pddl": the module whose run_evaluator runs
  sh_argv,                \* sys.argv[1:], each argument by what the file is
  sh_files,               \* temporary files that exist
  sh_calls,               \* invocations of the user predicate, in order
  sh_exit,                \* how the process ended
  \* ---- sas/files.py: _read_task, renamed_sas
  c_pc,                   \* position of the codec
  c_task,                 \* the grounded task handed to the writer
  c_text,                 \* the lines of the task file
  c_roles,                \* what each line of the file is in the format
  c_malformed,            \* how the file was damaged after it was written
  c_result                \* what _read_task returned or raised

search_vars ==
  <<deterministic, batch_size, pc, initial_status, current_status, current_state, verdict, pulled,
    tasks, cancel_requested, first_present, tasks_out_of_resources, improving_state,
    message, raised, outcome, errors, terminating, started_after_error, submitted,
    generated, accepted, seq_state, seq_done>>

domain_vars == <<d_pc, task_filename, existing, domain_filename>>

shim_vars == <<sh_pc, sh_format, sh_argv, sh_files, sh_calls, sh_exit>>

codec_vars == <<c_pc, c_task, c_text, c_roles, c_malformed, c_result>>

vars == <<search_vars, domain_vars, shim_vars, codec_vars>>

\* A file name that is None.
NoFile == <<>>

\* The parts of the program that a specification does not run stay idle.
DomainIdle ==
  /\ d_pc = "idle"
  /\ task_filename = NoFile
  /\ existing = {}
  /\ domain_filename = NoFile

ShimIdle ==
  /\ sh_pc = "idle"
  /\ sh_format = "sas"
  /\ sh_argv = <<>>
  /\ sh_files = {}
  /\ sh_calls = <<>>
  /\ sh_exit = "none"

CodecIdle ==
  /\ c_pc = "idle"
  /\ c_task = <<>>
  /\ c_text = <<>>
  /\ c_roles = <<>>
  /\ c_malformed = "no"
  /\ c_result = [err |-> "none", pos |-> 0, val |-> <<>>]

SearchIdle ==
  /\ deterministic = FALSE
  /\ batch_size = 1
  /\ pc = "idle"
  /\ initial_status = PENDING
  /\ current_status = PENDING
  /\ current_state = <<>>
  /\ verdict = <<>>
  /\ pulled = 0
  /\ tasks = <<>>
  /\ cancel_requested = {}
  /\ first_present = 0
  /\ tasks_out_of_resources = {}
  /\ improving_state = [tag |-> UNBOUND, path |-> <<>>]
  /\ message = [kind |-> UNBOUND, pos |-> 0, run_dirs |-> {}]
  /\ raised = "none"
  /\ outcome = <<>>
  /\ errors = 0
  /\ terminating = FALSE
  /\ started_after_error = FALSE
  /\ submitted = FALSE
  /\ generated = FALSE
  /\ accepted = 0
  /\ seq_state = <<>>
  /\ seq_done = FALSE

\* Ids of the current batch: task_ids = list(range(len(batch))).
task_ids == DOMAIN tasks

\* The batch numbered from its end.
Position_reversed(i) == pulled - i

\* Stream position (1-based) of the candidate with successor_id i of the batch.
Position(i) == pulled - Cardinality(task_ids) + i + 1

NoTasks == [i \in {} |-> PENDING]

\* Variant of the callback that cancels the later candidates on every status
\* but BehaviorNotPresent in both modes.
on_task_completed_any_mode(det, ids, successor_id, status) ==
  IF status # DONE_AND_BEHAVIOR_NOT_PRESENT
    THEN {i \in ids : i > successor_id}
    ELSE {}

\* The deterministic branch cancels from the completed candidate on.
on_task_completed_from_self(det, ids, successor_id, status) ==
  IF det /\ status # DONE_AND_BEHAVIOR_NOT_PRESENT
    THEN {i \in ids : i >= successor_id}
    ELSE IF ~det /\ status = DONE_AND_BEHAVIOR_PRESENT
      THEN ids
      ELSE {}

\* The eager branch cancels nothing.
on_task_completed_eager_silent(det, ids, successor_id, status) ==
  IF det /\ status # DONE_AND_BEHAVIOR_NOT_PRESENT
    THEN {i \in ids : i > successor_id}
    ELSE {}

\* The deterministic branch cancels every candidate of the batch.
on_task_completed_all_ids(det, ids, successor_id, status) ==
  IF det /\ status # DONE_AND_BEHAVIOR_NOT_PRESENT
    THEN ids
    ELSE IF ~det /\ status = DONE_AND_BEHAVIOR_PRESENT
      THEN ids
      ELSE {}

\* ---------------------------------------------------------- search.py:148
\* The per-batch completion callback: the ids to cancel (None is the empty set).
on_task_completed(det, ids, successor_id, status) ==
  IF det /\ status # DONE_AND_BEHAVIOR_NOT_PRESENT
    THEN {i \in ids : i > successor_id}
    ELSE IF ~det /\ status = DONE_AND_BEHAVIOR_PRESENT
      THEN ids
      ELSE {}

\* Variants of the scan with one branch changed, used to show that the
\* properties below depend on the scan.
\* (a) the OutOfResources branch lacks the deterministic return
RECURSIVE scan_tasks_oor_not_fatal(_, _, _, _)
scan_tasks_oor_not_fatal(det, st, i, oor) ==
  IF i \notin DOMAIN st
    THEN [kind |-> "exhausted", id |-> i, oor |-> oor]
    ELSE CASE st[i] = DONE_AND_BEHAVIOR_NOT_PRESENT ->
                scan_tasks_oor_not_fatal(det, st, i + 1, oor)
           [] st[i] = DONE_AND_BEHAVIOR_PRESENT -> [kind |-> "improving", id |-> i, oor |-> oor]
           [] st[i] = OUT_OF_RESOURCES -> scan_tasks_oor_not_fatal(det, st, i + 1, oor \cup {i})
           [] st[i] = CRITICAL ->
                IF det THEN [kind |-> "critical", id |-> i, oor |-> oor]
                       ELSE scan_tasks_oor_not_fatal(det, st, i + 1, oor)
           [] st[i] = CANCELED ->
                IF det THEN [kind |-> "assertion", id |-> i, oor |-> oor]
                       ELSE scan_tasks_oor_not_fatal(det, st, i + 1, oor)
           [] OTHER -> [kind |-> "assertion", id |-> i, oor |-> oor]

\* (b) OutOfResources and Critical end the scan in both modes
RECURSIVE scan_tasks_always_fatal(_, _, _, _)
scan_tasks_always_fatal(det, st, i, oor) ==
  IF i \notin DOMAIN st
    THEN [kind |-> "exhausted", id |-> i, oor |-> oor]
    ELSE CASE st[i] = DONE_AND_BEHAVIOR_NOT_PRESENT ->
                scan_tasks_always_fatal(det, st, i + 1, oor)
           [] st[i] = DONE_AND_BEHAVIOR_PRESENT -> [kind |-> "improving", id |-> i, oor |-> oor]
           [] st[i] = OUT_OF_RESOURCES -> [kind |-> "out_of_resources", id |-> i, oor |-> oor]
           [] st[i] = CRITICAL -> [kind |-> "critical", id |-> i, oor |-> oor]
           [] st[i] = CANCELED ->
                IF det THEN [kind |-> "assertion", id |-> i, oor |-> oor]
                       ELSE scan_tasks_always_fatal(det, st, i + 1, oor)
           [] OTHER -> [kind |-> "assertion", id |-> i, oor |-> oor]

\* (c) the Critical branch lacks the deterministic return
RECURSIVE scan_tasks_critical_not_fatal(_, _, _, _)
scan_tasks_critical_not_fatal(det, st, i, oor) ==
  IF i \notin DOMAIN st
    THEN [kind |-> "exhausted", id |-> i, oor |-> oor]
    ELSE CASE st[i] = DONE_AND_BEHAVIOR_NOT_PRESENT ->
                scan_tasks_critical_not_fatal(det, st, i + 1, oor)
           [] st[i] = DONE_AND_BEHAVIOR_PRESENT -> [kind |-> "improving", id |-> i, oor |-> oor]
           [] st[i] = OUT_OF_RESOURCES ->
                IF det THEN [kind |-> "out_of_resources", id |-> i, oor |-> oor]
                       ELSE scan_tasks_critical_not_fatal(det, st, i + 1, oor \cup {i})
           [] st[i] = CRITICAL -> scan_tasks_critical_not_fatal(det, st, i + 1, oor)
           [] st[i] = CANCELED ->
                IF det THEN [kind |-> "assertion", id |-> i, oor |-> oor]
                       ELSE scan_tasks_critical_not_fatal(det, st, i + 1, oor)
           [] OTHER -> [kind |-> "assertion", id |-> i, oor |-> oor]

\* (d) the BehaviorPresent branch lacks the return
RECURSIVE scan_tasks_present_skipped(_, _, _, _)
scan_tasks_present_skipped(det, st, i, oor) ==
  IF i \notin DOMAIN st
    THEN [kind |-> "exhausted", id |-> i, oor |-> oor]
    ELSE CASE st[i] = DONE_AND_BEHAVIOR_NOT_PRESENT ->
                scan_tasks_present_skipped(det, st, i + 1, oor)
           [] st[i] = DONE_AND_BEHAVIOR_PRESENT ->
                scan_tasks_present_skipped(det, st, i + 1, oor)
           [] st[i] = OUT_OF_RESOURCES ->
                IF det THEN [kind |-> "out_of_resources", id |-> i, oor |-> oor]
                       ELSE scan_tasks_present_skipped(det, st, i + 1, oor \cup {i})
           [] st[i] = CRITICAL ->
                IF det THEN [kind |-> "critical", id |-> i, oor |-> oor]
                       ELSE scan_tasks_present_skipped(det, st, i + 1, oor)
           [] st[i] = CANCELED ->
                IF det THEN [kind |-> "assertion", id |-> i, oor |-> oor]
                       ELSE scan_tasks_present_skipped(det, st, i + 1, oor)
           [] OTHER -> [kind |-> "assertion", id |-> i, oor |-> oor]

\* (e) the OutOfResources branch returns the task's state as the improving one
RECURSIVE scan_tasks_oor_accepted(_, _, _, _)
scan_tasks_oor_accepted(det, st, i, oor) ==
  IF i \notin DOMAIN st
    THEN [kind |-> "exhausted", id |-> i, oor |-> oor]
    ELSE CASE st[i] = DONE_AND_BEHAVIOR_NOT_PRESENT ->
                scan_tasks_oor_accepted(det, st, i + 1, oor)
           [] st[i] = DONE_AND_BEHAVIOR_PRESENT -> [kind |-> "improving", id |-> i, oor |-> oor]
           [] st[i] = OUT_OF_RESOURCES -> [kind |-> "improving", id |-> i, oor |-> oor]
           [] st[i] = CRITICAL ->
                IF det THEN [kind |-> "critical", id |-> i, oor |-> oor]
                       ELSE scan_tasks_oor_accepted(det, st, i + 1, oor)
           [] st[i] = CANCELED ->
                IF det THEN [kind |-> "assertion", id |-> i, oor |-> oor]
                       ELSE scan_tasks_oor_accepted(det, st, i + 1, oor)
           [] OTHER -> [kind |-> "assertion", id |-> i, oor |-> oor]

\* ------------------------------------------------------ search.py:164-190
\* The in-order scan of the tasks environment.run returned, from successor_id i
\* on, with `oor' the ids already added to tasks_out_of_resources by this scan.
\*   "improving"        return task.successor.state, task.successor.change_msg
\*   "out_of_resources" return None, error_msg + deterministic note (line 171)
\*   "critical"         return None, error_msg + deterministic note (line 179)
\*   "assertion"        AssertionError (lines 188, 190)
\*   "exhausted"        the for loop ended, the next batch is pulled
RECURSIVE scan_tasks(_, _, _, _)
scan_tasks(det, st, i, oor) ==
  IF i \notin DOMAIN st
    THEN [kind |-> "exhausted", id |-> i, oor |-> oor]
    ELSE CASE st[i] = DONE_AND_BEHAVIOR_NOT_PRESENT -> scan_tasks(det, st, i + 1, oor)
           [] st[i] = DONE_AND_BEHAVIOR_PRESENT -> [kind |-> "improving", id |-> i, oor |-> oor]
           [] st[i] = OUT_OF_RESOURCES ->
                IF det THEN [kind |-> "out_of_resources", id |-> i, oor |-> oor]
                       ELSE scan_tasks(det, st, i + 1, oor \cup {i})
           [] st[i] = CRITICAL ->
                IF det THEN [kind |-> "critical", id |-> i, oor |-> oor]
                       ELSE scan_tasks(det, st, i + 1, oor)
           [] st[i] = CANCELED ->
                IF det THEN [kind |-> "assertion", id |-> i, oor |-> oor]
                       ELSE scan_tasks(det, st, i + 1, oor)
           [] OTHER -> [kind |-> "assertion", id |-> i, oor |-> oor]

\* Variants of the initial-state check.
\* (a) the initial state is not checked (as the docstring note of search says)
search_verify_unchecked(det, status) ==
  IF status \in Verdicts \cup {CANCELED} THEN "loop" ELSE "raised_ValueError"

\* (b) OutOfResources and Critical raise in both modes
search_verify_strict(det, status) ==
  IF status = DONE_AND_BEHAVIOR_PRESENT \/ status = CANCELED
    THEN "loop" ELSE "raised_ValueError"

\* ------------------------------------------------------ search.py:102-119
\* What search does with the status of the initial state's evaluation.
search_verify(det, status) ==
  CASE status = DONE_AND_BEHAVIOR_PRESENT -> "loop"
    [] status = DONE_AND_BEHAVIOR_NOT_PRESENT -> "raised_ValueError"
    [] status = OUT_OF_RESOURCES -> IF det THEN "raised_ValueError" ELSE "loop"
    [] status = CRITICAL -> IF det THEN "raised_ValueError" ELSE "loop"
    [] status = CANCELED -> "loop"
    [] OTHER -> "raised_ValueError"

\* Values of search's local variables improving_state and message.
UnboundState == [tag |-> UNBOUND, path |-> <<>>]
NoneState == [tag |-> NONE, path |-> <<>>]
SomeState(p) == [tag |-> "state", path |-> p]
UnboundMessage == [kind |-> UNBOUND, pos |-> 0, run_dirs |-> {}]
\* task.successor.change_msg of the candidate at stream position p
ChangeMessage(p) == [kind |-> "change_msg", pos |-> p, run_dirs |-> {}]
\* task.error_msg + the deterministic-mode note of lines 171-174 / 179-182
ErrorMessage(kind, p) == [kind |-> kind, pos |-> p, run_dirs |-> {}]
\* Variant of the message below that leaves the run_dirs out.
NoImprovingMessage_without_run_dirs(dirs) ==
  [kind |-> "no_improving", pos |-> 0, run_dirs |-> {}]

\* "No improving successor was found." + the run_dirs of lines 192-198
NoImprovingMessage(dirs) == [kind |-> "no_improving", pos |-> 0, run_dirs |-> dirs]

\* Variant of the loop's decision: it goes on whatever the driver returned.
tail_continues_always(improving) == TRUE

\* search.py:138: `if improving_state:' -- the loop goes on with a state and
\* returns on None.
tail_continues(improving) == improving.tag = "state"

\* What a one-at-a-time evaluation in submission order accepts among the
\* successors with verdicts v: the first verdict that is not BehaviorNotPresent
\* decides, and only BehaviorPresent is accepted (0: nothing is accepted).
RECURSIVE SeqStepFrom(_, _)
SeqStepFrom(v, k) ==
  IF k > Len(v) THEN 0
  ELSE IF v[k] = DONE_AND_BEHAVIOR_NOT_PRESENT THEN SeqStepFrom(v, k + 1)
  ELSE IF v[k] = DONE_AND_BEHAVIOR_PRESENT THEN k
  ELSE 0
SeqStep(v) == SeqStepFrom(v, 1)

\* ------------------------------------------------------------------ Init
Init ==
  /\ deterministic \in BOOLEAN
  /\ batch_size \in 1..MaxBatch
  /\ pc = "verify"
  /\ initial_status = PENDING
  /\ current_status = PENDING
  /\ current_state = <<>>
  /\ verdict \in VerdictStreams(MaxSucc)
  /\ pulled = 0
  /\ tasks = NoTasks
  /\ cancel_requested = {}
  /\ first_present = 0
  /\ tasks_out_of_resources = {}
  /\ improving_state = UnboundState
  /\ message = UnboundMessage
  /\ raised = "none"
  /\ outcome = [k \in 1..Len(verdict) |-> UNEVALUATED]
  /\ errors = 0
  /\ terminating = FALSE
  /\ started_after_error = FALSE
  /\ submitted = FALSE
  /\ generated = FALSE
  /\ accepted = 0
  /\ seq_state = <<>>
  /\ seq_done = FALSE
  /\ DomainIdle
  /\ ShimIdle
  /\ CodecIdle

\* -------------------------------------------- search.py:100-119 (search)
\* The initial state is evaluated as a batch of one with a callback that never
\* cancels, so its evaluation runs to its end.
VerifyInitial ==
  /\ UNCHANGED <<domain_vars, shim_vars, codec_vars>>
  /\ pc = "verify"
  /\ \E s \in Verdicts :
       /\ initial_status' = s
       /\ current_status' = s
       /\ pc' = search_verify(deterministic, s)
  /\ UNCHANGED <<deterministic, batch_size, current_state, verdict, pulled, tasks,
                 cancel_requested, first_present, tasks_out_of_resources,
                 improving_state, message, raised, outcome, errors, terminating,
                 started_after_error, submitted, generated, accepted, seq_state,
                 seq_done>>

\* ---------------------------- search.py:126-130, 145 (start of an iteration)
StartIteration ==
  /\ UNCHANGED <<domain_vars, shim_vars, codec_vars>>
  /\ pc = "loop"
  /\ pc' = "batching"
  /\ generated' = TRUE
  /\ pulled' = 0
  /\ tasks' = NoTasks
  /\ cancel_requested' = {}
  /\ first_present' = 0
  /\ tasks_out_of_resources' = {}
  /\ raised' = "none"
  /\ outcome' = [k \in 1..Len(verdict) |-> UNEVALUATED]
  /\ started_after_error' = (started_after_error \/ terminating)
  /\ UNCHANGED <<deterministic, batch_size, initial_status, current_status, current_state, verdict,
                 improving_state, message, errors, terminating, submitted, accepted,
                 seq_state, seq_done>>

\* Variant of the submission that hands all the successors left in the stream
\* to environment.run as one batch.
SubmitBatch_whole_stream ==
  /\ UNCHANGED <<domain_vars, shim_vars, codec_vars>>
  /\ pc = "batching"
  /\ pulled < Len(verdict)
  /\ pulled' = Len(verdict)
  /\ tasks' = [i \in 0..(Len(verdict) - pulled - 1) |-> PENDING]
  /\ submitted' = TRUE
  /\ cancel_requested' = {}
  /\ first_present' = 0
  /\ pc' = "running"
  /\ UNCHANGED <<deterministic, batch_size, initial_status, current_status, current_state, verdict,
                 tasks_out_of_resources, improving_state, message, raised, outcome,
                 errors, terminating, started_after_error, generated, accepted,
                 seq_state, seq_done>>

\* -------------------- search.py:146-163 (next batch handed to environment.run)
SubmitBatch ==
  /\ UNCHANGED <<domain_vars, shim_vars, codec_vars>>
  /\ pc = "batching"
  /\ pulled < Len(verdict)
  /\ LET k == Min(batch_size, Len(verdict) - pulled) IN
       /\ pulled' = pulled + k
       /\ tasks' = [i \in 0..(k - 1) |-> PENDING]
       /\ submitted' = TRUE
  /\ cancel_requested' = {}
  /\ first_present' = 0
  /\ pc' = "running"
  /\ UNCHANGED <<deterministic, batch_size, initial_status, current_status, current_state, verdict,
                 tasks_out_of_resources, improving_state, message, raised, outcome,
                 errors, terminating, started_after_error, generated, accepted,
                 seq_state, seq_done>>

\* ------ search.py:131-132: environment.run raises SubmissionError for the batch
SubmissionFails ==
  /\ UNCHANGED <<domain_vars, shim_vars, codec_vars>>
  /\ pc = "batching"
  /\ pulled < Len(verdict)
  /\ errors < MaxErrors
  /\ pulled' = pulled + Min(batch_size, Len(verdict) - pulled)
  /\ tasks' = NoTasks
  /\ cancel_requested' = {}
  /\ first_present' = 0
  /\ errors' = errors + 1
  /\ raised' = "SubmissionError"
  /\ terminating' = TRUE
  /\ pc' = "tail"
  /\ UNCHANGED <<deterministic, batch_size, initial_status, current_status, current_state, verdict,
                 tasks_out_of_resources, improving_state, message, outcome,
                 started_after_error, submitted, generated, accepted, seq_state,
                 seq_done>>

\* ---------------- search.py:192-199: the stream is exhausted, nothing accepted
StreamExhausted ==
  /\ UNCHANGED <<domain_vars, shim_vars, codec_vars>>
  /\ pc = "batching"
  /\ pulled = Len(verdict)
  /\ improving_state' = NoneState
  /\ message' = NoImprovingMessage(tasks_out_of_resources)
  /\ pc' = "tail"
  /\ UNCHANGED <<deterministic, batch_size, initial_status, current_status, current_state, verdict,
                 pulled, tasks, cancel_requested, first_present,
                 tasks_out_of_resources, raised, outcome, errors, terminating,
                 started_after_error, submitted, generated, accepted, seq_state,
                 seq_done>>

\* ------------------- environment.run: the evaluation of candidate i ends and
\* its completion event is delivered to the callback (search.py:148-161).
\* Cancellation is best-effort: a candidate whose cancellation was requested
\* may still run to its end before the cancellation takes effect.
TaskCompleted(i) ==
  /\ UNCHANGED <<domain_vars, shim_vars, codec_vars>>
  /\ pc = "running"
  /\ i \in task_ids
  /\ tasks[i] = PENDING
  /\ LET status == verdict[Position(i)] IN
       /\ tasks' = [tasks EXCEPT ![i] = status]
       /\ cancel_requested' =
            cancel_requested \cup on_task_completed(deterministic, task_ids, i, status)
       /\ first_present' =
            IF first_present = 0 /\ status = DONE_AND_BEHAVIOR_PRESENT
              THEN i + 1 ELSE first_present
  /\ UNCHANGED <<deterministic, batch_size, pc, initial_status, current_status, current_state, verdict,
                 pulled, tasks_out_of_resources, improving_state, message, raised,
                 outcome, errors, terminating, started_after_error, submitted,
                 generated, accepted, seq_state, seq_done>>

\* ------------- environment.run: a requested cancellation takes effect on a
\* candidate that is still pending; a terminal candidate keeps its status.
TaskCanceled(i) ==
  /\ UNCHANGED <<domain_vars, shim_vars, codec_vars>>
  /\ pc = "running"
  /\ i \in task_ids
  /\ i \in cancel_requested
  /\ tasks[i] = PENDING
  /\ tasks' = [tasks EXCEPT ![i] = CANCELED]
  /\ UNCHANGED <<deterministic, batch_size, pc, initial_status, current_status, current_state, verdict,
                 pulled, cancel_requested, first_present, tasks_out_of_resources,
                 improving_state, message, raised, outcome, errors, terminating,
                 started_after_error, submitted, generated, accepted, seq_state,
                 seq_done>>

\* ---- search.py:133-134: environment.run raises PollingError while it waits
PollingFails ==
  /\ UNCHANGED <<domain_vars, shim_vars, codec_vars>>
  /\ pc = "running"
  /\ \E i \in task_ids : tasks[i] = PENDING
  /\ errors < MaxErrors
  /\ errors' = errors + 1
  /\ raised' = "PollingError"
  /\ terminating' = TRUE
  /\ pc' = "tail"
  /\ UNCHANGED <<deterministic, batch_size, initial_status, current_status, current_state, verdict,
                 pulled, tasks, cancel_requested, first_present,
                 tasks_out_of_resources, improving_state, message, outcome,
                 started_after_error, submitted, generated, accepted, seq_state,
                 seq_done>>

\* ----- search.py:163-190: environment.run returns the settled batch and the
\* tasks are scanned in submission order.
ScanBatch ==
  /\ UNCHANGED <<domain_vars, shim_vars, codec_vars>>
  /\ pc = "running"
  /\ \A i \in task_ids : tasks[i] # PENDING
  /\ LET r == scan_tasks(deterministic, tasks, 0, {}) IN
       /\ tasks_out_of_resources' =
            tasks_out_of_resources \cup {Position(i) : i \in r.oor}
       /\ CASE r.kind = "improving" ->
                 /\ improving_state' = SomeState(Append(current_state, Position(r.id)))
                 /\ message' = ChangeMessage(Position(r.id))
                 /\ pc' = "tail"
            [] r.kind \in {"out_of_resources", "critical"} ->
                 /\ improving_state' = NoneState
                 /\ message' = ErrorMessage(r.kind, Position(r.id))
                 /\ pc' = "tail"
            [] r.kind = "assertion" ->
                 /\ pc' = "crashed_AssertionError"
                 /\ UNCHANGED <<improving_state, message>>
            [] OTHER ->
                 /\ pc' = "batching"
                 /\ UNCHANGED <<improving_state, message>>
  /\ outcome' = [k \in DOMAIN outcome |->
                   IF \E i \in task_ids : Position(i) = k
                     THEN tasks[k - 1 - (pulled - Cardinality(task_ids))]
                     ELSE outcome[k]]
  /\ UNCHANGED <<deterministic, batch_size, initial_status, current_status, current_state, verdict,
                 pulled, tasks, cancel_requested, first_present, raised, errors,
                 terminating, started_after_error, submitted, generated, accepted,
                 seq_state, seq_done>>

\* ------------------------------- search.py:136-141: the tail of the loop body.
\* After a caught SubmissionError / PollingError, improving_state and message
\* still hold what the previous iteration assigned (nothing in the first one).
LoopTail ==
  /\ UNCHANGED <<domain_vars, shim_vars, codec_vars>>
  /\ pc = "tail"
  /\ IF message = UnboundMessage
       THEN \* line 136 reads a local that was never assigned
            /\ pc' = "crashed_UnboundLocalError"
            /\ UNCHANGED <<current_state, current_status, verdict, accepted,
                           seq_state, seq_done, pulled, tasks, cancel_requested, first_present,
                           tasks_out_of_resources, outcome>>
       ELSE
         /\ IF tail_continues(improving_state)
              THEN /\ current_state' = improving_state.path
                   /\ pc' = "loop"
                   /\ IF improving_state.path = current_state
                        THEN UNCHANGED <<verdict, accepted, current_status>>
                        ELSE /\ current_status' = outcome[message.pos]
                             /\ verdict' \in VerdictStreams(
                                  IF Len(improving_state.path) < MaxDepth
                                    THEN MaxSucc ELSE 0)
                             /\ accepted' = accepted + 1
                   \* the locals of the finished _get_improving_successor call are gone
                   /\ pulled' = 0
                   /\ tasks' = NoTasks
                   /\ cancel_requested' = {}
                   /\ first_present' = 0
                   /\ tasks_out_of_resources' = {}
                   /\ outcome' = [k \in 1..Len(verdict') |-> UNEVALUATED]
              ELSE /\ pc' = "returned"
                   /\ UNCHANGED <<current_state, current_status, verdict, accepted,
                                  pulled, tasks,
                                  cancel_requested, first_present,
                                  tasks_out_of_resources, outcome>>
         /\ IF deterministic /\ raised = "none" /\ ~seq_done /\ seq_state = current_state
              THEN LET k == SeqStep(verdict) IN
                     /\ seq_done' = (k = 0)
                     /\ seq_state' = IF k = 0 THEN seq_state ELSE Append(seq_state, k)
              ELSE UNCHANGED <<seq_state, seq_done>>
  /\ UNCHANGED <<deterministic, batch_size, initial_status, improving_state, message,
                 raised, errors, terminating, started_after_error, submitted, generated>>

Next ==
  \/ VerifyInitial
  \/ StartIteration
  \/ SubmitBatch
  \/ SubmissionFails
  \/ StreamExhausted
  \/ \E i \in 0..(MaxBatch - 1) : TaskCompleted(i)
  \/ \E i \in 0..(MaxBatch - 1) : TaskCanceled(i)
  \/ PollingFails
  \/ ScanBatch
  \/ LoopTail

Spec == Init /\ [][Next]_vars

\* ------------- search.py:101, 116-117: an environment that gives up the
\* evaluation of the initial state on its own and reports it Canceled (the
\* callback of line 101 asks for no cancellation).
InitialCanceled ==
  /\ UNCHANGED <<domain_vars, shim_vars, codec_vars>>
  /\ pc = "verify"
  /\ initial_status' = CANCELED
  /\ current_status' = CANCELED
  /\ pc' = search_verify(deterministic, CANCELED)
  /\ UNCHANGED <<deterministic, batch_size, current_state, verdict, pulled, tasks,
                 cancel_requested, first_present, tasks_out_of_resources,
                 improving_state, message, raised, outcome, errors, terminating,
                 started_after_error, submitted, generated, accepted, seq_state,
                 seq_done>>

CancelingNext ==
  \/ InitialCanceled
  \/ Next

\* The search under an environment that may cancel the initial evaluation.
CancelingSpec == Init /\ [][CancelingNext]_vars

\* The environment's cancellation contract: an evaluation that is in flight
\* and whose cancellation was requested eventually reaches Canceled (unless
\* it ends by itself before).  An evaluation need not end by itself.
CancellationTakesEffect == \E i \in 0..(MaxBatch - 1) : TaskCanceled(i)

FairSpec == Spec /\ WF_vars(CancellationTakesEffect)

\* ======================================================================
\* pddl/files.py: discovery of the domain file
\* ======================================================================

\* File names are sequences of characters, all in one directory (dirname is
\* joined unchanged to every candidate).
MaxBase == 3      \* longest root of a task file name

RootChars == {"p", "1"}

Roots == UNION {[1..k -> RootChars] : k \in 1..MaxBase}

DOT_PDDL == <<".", "p", "d", "d", "l">>

Extensions == {<<>>, DOT_PDDL, <<".", "t">>}

DOMAIN_PDDL == <<"d", "o", "m", "a", "i", "n">> \o DOT_PDDL

DASH_DOMAIN == <<"-", "d", "o", "m", "a", "i", "n">>

DOMAIN_UNDERSCORE == <<"d", "o", "m", "a", "i", "n", "_">>

DOMAIN_DASH == <<"d", "o", "m", "a", "i", "n", "-">>

\* s[:n]
Take(s, n) == SubSeq(s, 1, Min(n, Len(s)))

\* Index of the last "." of s that follows a character other than ".", or 0.
ExtensionStart(s) ==
  LET dots == {i \in 1..Len(s) : s[i] = "." /\ \E j \in 1..(i - 1) : s[j] # "."}
  IN IF dots = {} THEN 0 ELSE CHOOSE i \in dots : \A j \in dots : j <= i

\* os.path.splitext(basename)
splitext(basename) ==
  LET i == ExtensionStart(basename)
  IN IF i = 0
       THEN [root |-> basename, ext |-> <<>>]
       ELSE [root |-> SubSeq(basename, 1, i - 1), ext |-> SubSeq(basename, i, Len(basename))]

\* The naming rules with the third candidate cut from the root of the name
\* (the first 3 characters of base, for a task file dir/base.ext).
domain_basenames_airport_from_root(basename) ==
  LET se == splitext(basename)
  IN << DOMAIN_PDDL,
        se.root \o DASH_DOMAIN \o se.ext,
        Take(se.root, 3) \o DASH_DOMAIN \o DOT_PDDL,
        DOMAIN_UNDERSCORE \o basename,
        DOMAIN_DASH \o basename >>

\* pddl/files.py:24-32
domain_basenames(basename) ==
  LET se == splitext(basename)
  IN << DOMAIN_PDDL,
        se.root \o DASH_DOMAIN \o se.ext,
        Take(basename, 3) \o DASH_DOMAIN \o DOT_PDDL,
        DOMAIN_UNDERSCORE \o basename,
        DOMAIN_DASH \o basename >>

\* First name of a list for which os.path.exists holds, None if there is none.
FirstExisting(names, exists) ==
  LET hits == {k \in 1..Len(names) : names[k] \in exists}
  IN IF hits = {} THEN NoFile ELSE names[CHOOSE k \in hits : \A j \in hits : k <= j]

\* pddl/files.py:20-41
find_domain_filename(basename, exists) == FirstExisting(domain_basenames(basename), exists)

\* Every name one of the naming rules can ask for.
AskedNames(basename) ==
  {domain_basenames(basename)[k] : k \in 1..5}
    \cup {domain_basenames_airport_from_root(basename)[k] : k \in 1..5}

DomainFrame == UNCHANGED <<search_vars, shim_vars, codec_vars>>

DomainInit ==
  /\ SearchIdle
  /\ ShimIdle
  /\ CodecIdle
  /\ d_pc = "find"
  /\ \E r \in Roots, e \in Extensions : task_filename = r \o e
  /\ existing \in SUBSET AskedNames(task_filename)
  /\ domain_filename = NoFile

FindDomainFilename ==
  /\ d_pc = "find"
  /\ domain_filename' = find_domain_filename(task_filename, existing)
  /\ d_pc' = "found"
  /\ UNCHANGED <<task_filename, existing>>
  /\ DomainFrame

DomainNext == FindDomainFilename

DomainSpec == DomainInit /\ [][DomainNext]_vars

\* ======================================================================
\* sas/files.py, pddl/files.py: run_evaluator, the evaluator shim
\* ======================================================================
MaxArgs == 3      \* most command line arguments given to the shim

EXIT_CODE_BEHAVIOR_PRESENT == "EXIT_CODE_BEHAVIOR_PRESENT"
EXIT_CODE_BEHAVIOR_NOT_PRESENT == "EXIT_CODE_BEHAVIOR_NOT_PRESENT"
EXIT_CODE_CRITICAL == "EXIT_CODE_CRITICAL"
EXIT_CODE_IMPROVING == EXIT_CODE_BEHAVIOR_PRESENT
EXIT_CODE_NOT_IMPROVING == EXIT_CODE_BEHAVIOR_NOT_PRESENT

\* What a file named on the command line is: a pickled state, a task file
\* (which does not unpickle), or no file at all.
ArgKinds == {"blob", "task", "missing"}

ArgLists == UNION {[1..n -> ArgKinds] : n \in 0..MaxArgs}

\* What one call of the user predicate does.
PredicateResults == {"True", "False", "FileNotFoundError", "PickleError", "Exception"}

\* tools.read_state(filename): the state, or the exception it raises.
read_state(kind) ==
  IF kind = "blob" THEN "state"
  ELSE IF kind = "task" THEN "PickleError"
  ELSE "FileNotFoundError"

\* The files the context manager writes: sas/files.py:50-52, pddl/files.py:72-79.
temporary_names(format) ==
  IF format = "sas" THEN {"sas_file"} ELSE {"domain_file", "problem_file"}

\* sas/files.py:57-61, pddl/files.py:85-89: how the call of the predicate and
\* the sys.exit after it leave the function.
run_evaluator_on_files(result) ==
  IF result = "True" THEN [raised |-> "SystemExit", code |-> EXIT_CODE_BEHAVIOR_PRESENT]
  ELSE IF result = "False" THEN [raised |-> "SystemExit", code |-> EXIT_CODE_BEHAVIOR_NOT_PRESENT]
  ELSE [raised |-> result, code |-> "uncaught_exception"]

\* sas/files.py:53-54, pddl/files.py:80-82: the generator resumes after its
\* yield and removes the files only if the body of the with statement ended
\* without an exception; an exception is thrown into the generator at the
\* yield, which no try statement encloses.
leave_context(files, names, exception) ==
  IF exception = "none" THEN files \ names ELSE files

\* except (FileNotFoundError, PickleError): sas/files.py:93, pddl/files.py:123
caught(exception) == exception \in {"FileNotFoundError", "PickleError"}

\* len(sys.argv) selects the branch: sas/files.py:87, pddl/files.py:116-131.
usage_ok(format, argv) ==
  IF format = "sas" THEN Len(argv) = 1 ELSE Len(argv) \in {1, 2}

ShimTaskNames == {<<"p", "1">> \o DOT_PDDL, <<"p", "1", "1">> \o DOT_PDDL}

Invocation(on, domain) == [on |-> on, domain |-> domain]

ShimFrame == UNCHANGED <<search_vars, d_pc, task_filename, existing, codec_vars>>

ShimInit ==
  /\ SearchIdle
  /\ CodecIdle
  /\ d_pc = "idle"
  /\ task_filename \in ShimTaskNames
  /\ existing \in {{}} \cup {{n} : n \in AskedNames(task_filename)}
  /\ domain_filename = NoFile
  /\ sh_pc = "start"
  /\ sh_format \in {"sas", "pddl"}
  /\ sh_argv \in ArgLists
  /\ sh_files = {}
  /\ sh_calls = <<>>
  /\ sh_exit = "none"

\* sas/files.py:95-99, pddl/files.py:131-136
ShimUsageError ==
  /\ sh_pc = "start"
  /\ ~usage_ok(sh_format, sh_argv)
  /\ sh_exit' = EXIT_CODE_CRITICAL
  /\ sh_pc' = "exited"
  /\ UNCHANGED <<sh_format, sh_argv, sh_files, sh_calls, domain_filename>>
  /\ ShimFrame

\* sas/files.py:88-91, pddl/files.py:117-120: read_state and the entry into
\* the context of the temporary files.
ShimReadState ==
  /\ sh_pc = "start"
  /\ Len(sh_argv) = 1
  /\ IF read_state(sh_argv[1]) = "state"
       THEN /\ sh_files' = sh_files \cup temporary_names(sh_format)
            /\ sh_pc' = "in_context"
       ELSE /\ caught(read_state(sh_argv[1]))
            /\ sh_files' = sh_files
            /\ sh_pc' = "except"
  /\ UNCHANGED <<sh_format, sh_argv, sh_calls, sh_exit, domain_filename>>
  /\ ShimFrame

\* sas/files.py:91-92, pddl/files.py:120-122: the body of the with statement.
ShimEvaluateTemporary ==
  /\ sh_pc = "in_context"
  /\ \E result \in PredicateResults :
       LET left == run_evaluator_on_files(result)
       IN /\ sh_calls' = Append(sh_calls, Invocation("temporary", NoFile))
          /\ sh_files' = leave_context(sh_files, temporary_names(sh_format), left.raised)
          /\ IF caught(left.raised)
               THEN sh_pc' = "except" /\ sh_exit' = sh_exit
               ELSE sh_pc' = "exited" /\ sh_exit' = left.code
  /\ UNCHANGED <<sh_format, sh_argv, domain_filename>>
  /\ ShimFrame

\* sas/files.py:93-94, pddl/files.py:123-127: the except clause.
ShimEvaluateArgument ==
  /\ sh_pc = "except"
  /\ domain_filename' =
       IF sh_format = "pddl"
         THEN find_domain_filename(task_filename, existing)
         ELSE domain_filename
  /\ \E result \in PredicateResults :
       /\ sh_calls' = Append(sh_calls,
            Invocation(IF sh_format = "pddl" THEN "discovered" ELSE "argument",
                       domain_filename'))
       /\ sh_exit' = run_evaluator_on_files(result).code
  /\ sh_pc' = "exited"
  /\ UNCHANGED <<sh_format, sh_argv, sh_files>>
  /\ ShimFrame

\* pddl/files.py:128-130: domain and problem file given.
ShimEvaluateTwoFiles ==
  /\ sh_pc = "start"
  /\ sh_format = "pddl"
  /\ Len(sh_argv) = 2
  /\ \E result \in PredicateResults :
       /\ sh_calls' = Append(sh_calls, Invocation("argument", NoFile))
       /\ sh_exit' = run_evaluator_on_files(result).code
  /\ sh_pc' = "exited"
  /\ UNCHANGED <<sh_format, sh_argv, sh_files, domain_filename>>
  /\ ShimFrame

ShimNext ==
  \/ ShimUsageError
  \/ ShimReadState
  \/ ShimEvaluateTemporary
  \/ ShimEvaluateArgument
  \/ ShimEvaluateTwoFiles

ShimSpec == ShimInit /\ [][ShimNext]_vars

\* ======================================================================
\* sas/files.py: _read_task, and the writer whose text it reads
\* ======================================================================
\* A file is a sequence of lines, a line the sequence of its tokens (what
\* line.split(" ") yields); numbers are written as decimal strings.
MaxOperators == 1     \* most operators of a task
MaxAxioms == 1        \* most axioms of a task

Numerals == <<"0", "1", "2", "3", "4", "5", "6", "7", "8", "9">>

\* str(n), "%d" % n
py_str(n) == IF n < 0 THEN "-" \o Numerals[1 - n] ELSE Numerals[n + 1]

Numbers == (0 - 9)..9

\* int(token) is defined on the decimal strings only.
IsNumeral(token) == \E n \in Numbers : py_str(n) = token

py_int(token) == CHOOSE n \in Numbers : py_str(n) = token

\* bool(line) of a str: every string but the empty one is true.
py_bool(line) == line # <<>>

RECURSIVE Flatten(_)
Flatten(ss) == IF ss = <<>> THEN <<>> ELSE Head(ss) \o Flatten(Tail(ss))

\* ------------------------------------------------------------ the tasks
Pair(var, val) == <<var, val>>

VALUE_NAMES == << <<"Atom", "p">>, <<"NegatedAtom", "p">> >>

OPERATOR_NAME == <<"(", "op", "x", ")">>

Variable(layer) == [axiom_layer |-> layer, range |-> 2, value_names |-> VALUE_NAMES]

Conditions == {<<>>, <<Pair(0, 0)>>}

SASOperators ==
  {[name |-> OPERATOR_NAME, prevail |-> pv,
    pre_post |-> << <<0, pre, 1, cond>> >>, cost |-> cost] :
      pv \in Conditions, pre \in {0 - 1, 0}, cond \in Conditions, cost \in {0, 1}}

SASAxioms == {[condition |-> c, effect |-> Pair(0, v)] : c \in Conditions, v \in {0, 1}}

UpTo(S, n) == UNION {[1..k -> S] : k \in 0..n}

\* SASTask(variables, mutexes, init, goal, operators, axioms, metric)
SASTask(variables, mutexes, init, goal, operators, axioms, metric) ==
  [variables |-> variables, mutexes |-> mutexes, init |-> init, goal |-> goal,
   operators |-> operators, axioms |-> axioms, metric |-> metric]

\* SASTask.validate: the invariants of a grounded task.
validate(t) ==
  LET legal(var, val) ==
        /\ var \in 0..(Len(t.variables) - 1)
        /\ val \in 0..(t.variables[var + 1].range - 1)
      all_legal(pairs) == \A k \in 1..Len(pairs) : legal(pairs[k][1], pairs[k][2])
  IN /\ \A k \in 1..Len(t.variables) :
          Len(t.variables[k].value_names) = t.variables[k].range
     /\ \A k \in 1..Len(t.mutexes) : all_legal(t.mutexes[k])
     /\ Len(t.init) = Len(t.variables)
     /\ \A k \in 1..Len(t.init) : legal(k - 1, t.init[k])
     /\ t.goal # <<>>
     /\ all_legal(t.goal)
     /\ \A k \in 1..Len(t.operators) :
          /\ all_legal(t.operators[k].prevail)
          /\ t.operators[k].cost >= 0
          /\ \A e \in 1..Len(t.operators[k].pre_post) :
               LET eff == t.operators[k].pre_post[e]
               IN /\ legal(eff[1], eff[3])
                  /\ (eff[2] = 0 - 1 \/ legal(eff[1], eff[2]))
                  /\ all_legal(eff[4])
     /\ \A k \in 1..Len(t.axioms) :
          /\ all_legal(t.axioms[k].condition)
          /\ legal(t.axioms[k].effect[1], t.axioms[k].effect[2])
          /\ t.variables[t.axioms[k].effect[1] + 1].axiom_layer >= 0
          /\ t.variables[t.axioms[k].effect[1] + 1].range = 2

Tasks ==
  {t \in
     {SASTask(<<Variable(layer)>>, mutexes, <<0>>, <<Pair(0, 1)>>, operators, axioms, metric) :
        layer \in {0 - 1, 0},
        mutexes \in {<<>>, << <<Pair(0, 0), Pair(0, 1)>> >>},
        operators \in UpTo(SASOperators, MaxOperators),
        axioms \in UpTo(SASAxioms, MaxAxioms),
        metric \in BOOLEAN} :
     validate(t)}

\* ----------------------------------------------------------- the writer
\* The writer's lines, each with what it is in the format: a section
\* delimiter, the count of a repeated section, or data.
Delimiter(word) == [role |-> "delimiter", tokens |-> <<word>>]

Count(n) == [role |-> "count", tokens |-> <<py_str(n)>>]

Data(tokens) == [role |-> "data", tokens |-> tokens]

NumberLine(n) == Data(<<py_str(n)>>)

PairTokens(pair) == <<py_str(pair[1]), py_str(pair[2])>>

PairLine(pair) == Data(PairTokens(pair))

Counted(lines) == <<Count(Len(lines))>> \o lines

write_variable(i, v) ==
  << Delimiter("begin_variable"), Data(<<"var" \o py_str(i)>>), NumberLine(v.axiom_layer) >>
    \o Counted([n \in 1..Len(v.value_names) |-> Data(v.value_names[n])]) \o <<Delimiter("end_variable")>>

write_mutex(group) ==
  <<Delimiter("begin_mutex_group")>> \o Counted([n \in 1..Len(group) |-> PairLine(group[n])])
    \o <<Delimiter("end_mutex_group")>>

write_effect(eff) ==
  Data(<<py_str(Len(eff[4]))>> \o Flatten([n \in 1..Len(eff[4]) |-> PairTokens(eff[4][n])])
         \o <<py_str(eff[1]), py_str(eff[2]), py_str(eff[3])>>)

\* The name goes out without its parentheses: name[1:-1].
write_operator(op) ==
  << Delimiter("begin_operator"), Data(SubSeq(op.name, 2, Len(op.name) - 1)) >>
    \o Counted([n \in 1..Len(op.prevail) |-> PairLine(op.prevail[n])])
    \o Counted([n \in 1..Len(op.pre_post) |-> write_effect(op.pre_post[n])])
    \o << NumberLine(op.cost), Delimiter("end_operator") >>

\* The head goes out as var, old value, new value, with old = 1 - new.
write_axiom(ax) ==
  <<Delimiter("begin_rule")>> \o Counted([n \in 1..Len(ax.condition) |-> PairLine(ax.condition[n])])
    \o << Data(<<py_str(ax.effect[1]), py_str(1 - ax.effect[2]), py_str(ax.effect[2])>>),
          Delimiter("end_rule") >>

\* SASTask.output
write(t) ==
  << Delimiter("begin_metric"), NumberLine(IF t.metric THEN 1 ELSE 0), Delimiter("end_metric"),
     Count(Len(t.variables)) >>
    \o Flatten([k \in 1..Len(t.variables) |-> write_variable(k - 1, t.variables[k])])
    \o <<Count(Len(t.mutexes))>> \o Flatten([n \in 1..Len(t.mutexes) |-> write_mutex(t.mutexes[n])])
    \o <<Delimiter("begin_state")>> \o [n \in 1..Len(t.init) |-> NumberLine(t.init[n])] \o <<Delimiter("end_state")>>
    \o <<Delimiter("begin_goal")>> \o Counted([n \in 1..Len(t.goal) |-> PairLine(t.goal[n])]) \o <<Delimiter("end_goal")>>
    \o <<Count(Len(t.operators))>> \o Flatten([n \in 1..Len(t.operators) |-> write_operator(t.operators[n])])
    \o <<Count(Len(t.axioms))>> \o Flatten([n \in 1..Len(t.axioms) |-> write_axiom(t.axioms[n])])

Tokens(line) == line.tokens

Role(line) == line.role

\* ----------------------------------------------------------- the reader
\* Every reading step yields the position after it and its value, or the
\* exception it raises.
Ok(p, v) == [err |-> "none", pos |-> p, val |-> v]

Fail(e, p) == [err |-> e, pos |-> p, val |-> <<>>]

\* The element of a one-element set. A step's result r is bound once by
\* The({ e(r) : r \in {step} }), which is e(step).
The(S) == CHOOSE v \in S : TRUE

\* next(lines)
next_line(ls, p) == IF p <= Len(ls) THEN Ok(p + 1, ls[p]) ELSE Fail("StopIteration", p)

\* assert next(lines) == word
expect(ls, p, word) ==
  IF p > Len(ls) THEN Fail("StopIteration", p)
  ELSE IF ls[p] = <<word>> THEN Ok(p + 1, <<>>) ELSE Fail("AssertionError", p)

\* int(next(lines))
read_int(ls, p) ==
  IF p > Len(ls) THEN Fail("StopIteration", p)
  ELSE IF Len(ls[p]) = 1 /\ IsNumeral(ls[p][1])
    THEN Ok(p + 1, py_int(ls[p][1]))
    ELSE Fail("ValueError", p)

\* list(map(int, next(lines).split(" ")))
read_ints(ls, p) ==
  IF p > Len(ls) THEN Fail("StopIteration", p)
  ELSE IF ls[p] # <<>> /\ \A k \in 1..Len(ls[p]) : IsNumeral(ls[p][k])
    THEN Ok(p + 1, [n \in 1..Len(ls[p]) |-> py_int(ls[p][n])])
    ELSE Fail("ValueError", p)

\* var, val = map(int, next(lines).split(" "))
read_pair(ls, p) ==
  The({ IF r.err # "none" THEN r
        ELSE IF Len(r.val) = 2 THEN r ELSE Fail("ValueError", p)
    : r \in {read_ints(ls, p)} })

\* One turn of a reading loop, by what the loop reads (defined below).
RECURSIVE read_item(_, _, _)

\* for _ in range(n): the values of n turns, in order.
RECURSIVE Repeat(_, _, _, _)
Repeat(item, ls, p, n) ==
  IF n <= 0 THEN Ok(p, <<>>)
  ELSE
    The({ IF r.err # "none" THEN r ELSE
    The({ IF rest.err # "none" THEN rest ELSE Ok(rest.pos, <<r.val>> \o rest.val)
      : rest \in {Repeat(item, ls, r.pos, n - 1)} })
      : r \in {read_item(item, ls, p)} })

\* A count line and that many turns.
read_counted(item, ls, p) ==
  The({ IF n.err # "none" THEN n ELSE Repeat(item, ls, n.pos, n.val)
    : n \in {read_int(ls, p)} })

\* sas/files.py:137-146
read_variable(ls, p) ==
  The({ IF b.err # "none" THEN b ELSE
  The({ IF name.err # "none" THEN name ELSE
  The({ IF layer.err # "none" THEN layer ELSE
  The({ IF names.err # "none" THEN names ELSE
  The({ IF e.err # "none" THEN e ELSE
        Ok(e.pos, [axiom_layer |-> layer.val, range |-> read_int(ls, layer.pos).val,
                   value_names |-> names.val])
    : e \in {expect(ls, names.pos, "end_variable")} })
    : names \in {read_counted("line", ls, layer.pos)} })
    : layer \in {read_int(ls, name.pos)} })
    : name \in {next_line(ls, b.pos)} })
    : b \in {expect(ls, p, "begin_variable")} })

\* sas/files.py:153-160
read_mutex(ls, p) ==
  The({ IF b.err # "none" THEN b ELSE
  The({ IF facts.err # "none" THEN facts ELSE
  The({ IF e.err # "none" THEN e ELSE Ok(e.pos, facts.val)
    : e \in {expect(ls, facts.pos, "end_mutex_group")} })
    : facts \in {read_counted("pair", ls, b.pos)} })
    : b \in {expect(ls, p, "begin_mutex_group")} })

\* sas/files.py:164-171
read_init_state(ls, p, num_vars) ==
  The({ IF b.err # "none" THEN b ELSE
  The({ IF init.err # "none" THEN init ELSE
  The({ IF e.err # "none" THEN e ELSE Ok(e.pos, init.val)
    : e \in {expect(ls, init.pos, "end_state")} })
    : init \in {Repeat("int", ls, b.pos, num_vars)} })
    : b \in {expect(ls, p, "begin_state")} })

\* sas/files.py:174-182
read_goal(ls, p) ==
  The({ IF b.err # "none" THEN b ELSE
  The({ IF pairs.err # "none" THEN pairs ELSE
  The({ IF e.err # "none" THEN e ELSE Ok(e.pos, pairs.val)
    : e \in {expect(ls, pairs.pos, "end_goal")} })
    : pairs \in {read_counted("pair", ls, b.pos)} })
    : b \in {expect(ls, p, "begin_goal")} })

\* sas/files.py:198-206: the conditions are read from the front of the line
\* and var, pre, post from its last three numbers.
read_effect(ls, p) ==
  The({ IF r.err # "none" THEN r
        ELSE IF r.val[1] >= 1 /\ 2 * r.val[1] + 1 > Len(r.val)
          THEN Fail("IndexError", p)
        ELSE IF Len(r.val) < 3 THEN Fail("ValueError", p)
        ELSE Ok(r.pos, << r.val[Len(r.val) - 2], r.val[Len(r.val) - 1], r.val[Len(r.val)],
                          [k \in 1..(IF r.val[1] < 0 THEN 0 ELSE r.val[1])
                             |-> Pair(r.val[2 * k], r.val[2 * k + 1])] >>)
    : r \in {read_ints(ls, p)} })

\* sas/files.py:188-209
read_operator(ls, p) ==
  The({ IF b.err # "none" THEN b ELSE
  The({ IF name.err # "none" THEN name ELSE
  The({ IF prevail.err # "none" THEN prevail ELSE
  The({ IF pre_post.err # "none" THEN pre_post ELSE
  The({ IF cost.err # "none" THEN cost ELSE
  The({ IF e.err # "none" THEN e ELSE
        Ok(e.pos, [name |-> <<"(">> \o name.val \o <<")">>, prevail |-> prevail.val,
                   pre_post |-> pre_post.val, cost |-> cost.val])
    : e \in {expect(ls, cost.pos, "end_operator")} })
    : cost \in {read_int(ls, pre_post.pos)} })
    : pre_post \in {read_counted("effect", ls, prevail.pos)} })
    : prevail \in {read_counted("pair", ls, name.pos)} })
    : name \in {next_line(ls, b.pos)} })
    : b \in {expect(ls, p, "begin_operator")} })

\* sas/files.py:216-228
read_axiom(ls, p) ==
  The({ IF b.err # "none" THEN b ELSE
  The({ IF condition.err # "none" THEN condition ELSE
  The({ IF line.err # "none" THEN line ELSE
        IF Len(line.val) < 3 THEN Fail("IndexError", condition.pos) ELSE
        IF 1 - line.val[3] # line.val[2] THEN Fail("AssertionError", condition.pos) ELSE
  The({ IF e.err # "none" THEN e ELSE
        Ok(e.pos, [condition |-> condition.val, effect |-> Pair(line.val[1], line.val[3])])
    : e \in {expect(ls, line.pos, "end_rule")} })
    : line \in {read_ints(ls, condition.pos)} })
    : condition \in {read_counted("pair", ls, b.pos)} })
    : b \in {expect(ls, p, "begin_rule")} })

read_item(item, ls, p) ==
  CASE item = "line" -> next_line(ls, p)
    [] item = "int" -> read_int(ls, p)
    [] item = "pair" -> read_pair(ls, p)
    [] item = "variable" -> read_variable(ls, p)
    [] item = "mutex" -> read_mutex(ls, p)
    [] item = "effect" -> read_effect(ls, p)
    [] item = "operator" -> read_operator(ls, p)
    [] item = "axiom" -> read_axiom(ls, p)

\* sas/files.py:104-107: lines are skipped up to the first begin_metric.
find_begin_metric(ls) ==
  IF \A k \in 1..Len(ls) : ls[k] # <<"begin_metric">>
    THEN Fail("StopIteration", Len(ls) + 1)
    ELSE Ok((CHOOSE k \in 1..Len(ls) :
               /\ ls[k] = <<"begin_metric">>
               /\ \A j \in 1..(k - 1) : ls[j] # <<"begin_metric">>) + 1, <<>>)

\* SASTask(...) and sas_task.validate()
validated(p, sas_task) ==
  IF validate(sas_task) THEN Ok(p, sas_task) ELSE Fail("ValidationError", p)

\* sas/files.py:102-129
read_task(ls) ==
  The({ IF b.err # "none" THEN b ELSE
  The({ IF metric.err # "none" THEN metric ELSE
  The({ IF e.err # "none" THEN e ELSE
  The({ IF num_vars.err # "none" THEN num_vars ELSE
  The({ IF variables.err # "none" THEN variables ELSE
  The({ IF mutexes.err # "none" THEN mutexes ELSE
  The({ IF init.err # "none" THEN init ELSE
  The({ IF goal.err # "none" THEN goal ELSE
  The({ IF operators.err # "none" THEN operators ELSE
  The({ IF axioms.err # "none" THEN axioms ELSE
        validated(axioms.pos,
                  SASTask(variables.val, mutexes.val, init.val, goal.val, operators.val,
                          axioms.val, py_bool(metric.val)))
    : axioms \in {read_counted("axiom", ls, operators.pos)} })
    : operators \in {read_counted("operator", ls, goal.pos)} })
    : goal \in {read_goal(ls, init.pos)} })
    : init \in {read_init_state(ls, mutexes.pos, num_vars.val)} })
    : mutexes \in {read_counted("mutex", ls, variables.pos)} })
    : variables \in {Repeat("variable", ls, num_vars.pos, num_vars.val)} })
    : num_vars \in {read_int(ls, e.pos)} })
    : e \in {expect(ls, metric.pos, "end_metric")} })
    : metric \in {next_line(ls, b.pos)} })
    : b \in {find_begin_metric(ls)} })

\* ------------------------------------------------- malformed task files
DropLine(ls, k) == SubSeq(ls, 1, k - 1) \o SubSeq(ls, k + 1, Len(ls))

SwapLines(ls, k) == [ls EXCEPT ![k] = ls[k + 1], ![k + 1] = ls[k]]

OtherDelimiter(line) ==
  IF line = <<"end_rule">> THEN <<"begin_rule">> ELSE <<"end_rule">>

CodecFrame == UNCHANGED <<search_vars, domain_vars, shim_vars>>

CodecInit ==
  /\ SearchIdle
  /\ DomainIdle
  /\ ShimIdle
  /\ c_pc = "write"
  /\ c_task \in Tasks
  /\ c_text = <<>>
  /\ c_roles = <<>>
  /\ c_malformed = "no"
  /\ c_result = Ok(0, <<>>)

\* The writer emits the text of the task.
Write ==
  /\ c_pc = "write"
  /\ c_text' = [n \in 1..Len(write(c_task)) |-> Tokens(write(c_task)[n])]
  /\ c_roles' = [n \in 1..Len(write(c_task)) |-> Role(write(c_task)[n])]
  /\ c_pc' = "text"
  /\ UNCHANGED <<c_task, c_malformed, c_result>>
  /\ CodecFrame

\* A section delimiter line is lost.
DropDelimiter(k) ==
  /\ c_pc = "text"
  /\ c_malformed = "no"
  /\ k \in 1..Len(c_text)
  /\ c_roles[k] = "delimiter"
  /\ c_text' = DropLine(c_text, k)
  /\ c_roles' = DropLine(c_roles, k)
  /\ c_malformed' = "dropped"
  /\ UNCHANGED <<c_pc, c_task, c_result>>
  /\ CodecFrame

\* A section delimiter line changes places with the line after or before it.
ReorderDelimiter(k) ==
  /\ c_pc = "text"
  /\ c_malformed = "no"
  /\ k \in 1..(Len(c_text) - 1)
  /\ "delimiter" \in {c_roles[k], c_roles[k + 1]}
  /\ c_text[k] # c_text[k + 1]
  /\ c_text' = SwapLines(c_text, k)
  /\ c_roles' = SwapLines(c_roles, k)
  /\ c_malformed' = "reordered"
  /\ UNCHANGED <<c_pc, c_task, c_result>>
  /\ CodecFrame

\* A section delimiter line is replaced by another delimiter.
MismatchDelimiter(k) ==
  /\ c_pc = "text"
  /\ c_malformed = "no"
  /\ k \in 1..Len(c_text)
  /\ c_roles[k] = "delimiter"
  /\ c_text' = [c_text EXCEPT ![k] = OtherDelimiter(c_text[k])]
  /\ c_malformed' = "mismatched"
  /\ UNCHANGED <<c_pc, c_task, c_roles, c_result>>
  /\ CodecFrame

\* A count is one more or one less than the number of items that follow.
Miscount(k, d) ==
  /\ c_pc = "text"
  /\ c_malformed = "no"
  /\ k \in 1..Len(c_text)
  /\ c_roles[k] = "count"
  /\ py_int(c_text[k][1]) + d >= 0
  /\ c_text' = [c_text EXCEPT ![k] = <<py_str(py_int(c_text[k][1]) + d)>>]
  /\ c_malformed' = "miscounted"
  /\ UNCHANGED <<c_pc, c_task, c_roles, c_result>>
  /\ CodecFrame

\* _read_task(sas_file)
Read ==
  /\ c_pc = "text"
  /\ c_result' = read_task(c_text)
  /\ c_pc' = "read"
  /\ UNCHANGED <<c_task, c_text, c_roles, c_malformed>>
  /\ CodecFrame

CodecNext ==
  \/ Write
  \/ \E k \in 1..Len(c_text) : DropDelimiter(k)
  \/ \E k \in 1..Len(c_text) : ReorderDelimiter(k)
  \/ \E k \in 1..Len(c_text) : MismatchDelimiter(k)
  \/ \E k \in 1..Len(c_text), d \in {0 - 1, 1} : Miscount(k, d)
  \/ Read

CodecSpec == CodecInit /\ [][CodecNext]_vars

\* ======================================================================
\* sas/files.py: renamed_sas
\* ======================================================================
MaxRange == 27            \* largest domain of a variable of a task to rename
MaxRenamedOperators == 27 \* most operators of a task to rename

alphabet ==
  <<"a", "b", "c", "d", "e", "f", "g", "h", "i", "j", "k", "l", "m",
    "n", "o", "p", "q", "r", "s", "t", "u", "v", "w", "x", "y", "z">>

UPPER ==
  <<"A", "B", "C", "D", "E", "F", "G", "H", "I", "J", "K", "L", "M",
    "N", "O", "P", "Q", "R", "S", "T", "U", "V", "W", "X", "Y", "Z">>

\* alphabet[j] raises IndexError for an index outside the string.
in_alphabet(j) == j + 1 \in DOMAIN alphabet

\* f"{alphabet[j].upper()}{i}"
value_name(i, j) == <<UPPER[j + 1] \o py_str(i)>>

\* f"({alphabet[i]})"
operator_name(i) == <<"(", alphabet[i + 1], ")">>

\* sas/files.py:240-258
renamed_sas(sas_task) ==
  IF \E i \in 1..Len(sas_task.variables) :
       \E j \in 0..(sas_task.variables[i].range - 1) : ~in_alphabet(j)
    THEN Fail("IndexError", 0)
  ELSE IF \E i \in 0..(Len(sas_task.operators) - 1) : ~in_alphabet(i)
    THEN Fail("IndexError", 0)
  ELSE Ok(0, [sas_task EXCEPT
         !.variables = [i \in 1..Len(sas_task.variables) |->
            [sas_task.variables[i] EXCEPT
               !.value_names = [j \in 1..sas_task.variables[i].range |-> value_name(i - 1, j - 1)]]],
         !.operators = [i \in 1..Len(sas_task.operators) |->
            [sas_task.operators[i] EXCEPT !.name = operator_name(i - 1)]]])

\* Tasks with one or two variables, the first with a domain of any size, and
\* any number of operators.
RenameTasks ==
  {SASTask([i \in 1..num_vars |->
              [axiom_layer |-> 0 - 1,
               range |-> IF i = 1 THEN size ELSE 2,
               value_names |-> [j \in 1..(IF i = 1 THEN size ELSE 2) |-> <<"Atom", "p">>]]],
           <<>>, [i \in 1..num_vars |-> 0], <<Pair(0, 0)>>,
           [i \in 1..num_ops |->
              [name |-> OPERATOR_NAME, prevail |-> <<>>,
               pre_post |-> << <<0, 0 - 1, 0, <<>> >> >>, cost |-> 1]],
           <<>>, TRUE) :
     num_vars \in {1, 2}, size \in 1..MaxRange, num_ops \in 0..MaxRenamedOperators}

RenameInit ==
  /\ SearchIdle
  /\ DomainIdle
  /\ ShimIdle
  /\ c_pc = "rename"
  /\ c_task \in RenameTasks
  /\ c_text = <<>>
  /\ c_roles = <<>>
  /\ c_malformed = "no"
  /\ c_result = Ok(0, <<>>)

\* rename.py:12 calls renamed_sas on the task it has read.
Rename ==
  /\ c_pc = "rename"
  /\ c_result' = renamed_sas(c_task)
  /\ c_pc' = "renamed"
  /\ UNCHANGED <<c_task, c_text, c_roles, c_malformed>>
  /\ CodecFrame

RenameNext == Rename

RenameSpec == RenameInit /\ [][RenameNext]_vars

\* ======================================================================
\* Properties
\* ======================================================================

\* _get_improving_successor has returned to search in this iteration.
Returned == pc = "tail" /\ raised = "none"

\* The candidates of the batch before successor_id i all ended BehaviorNotPresent.
AllBeforeNotPresent(i) ==
  \A j \in task_ids : j < i => tasks[j] = DONE_AND_BEHAVIOR_NOT_PRESENT

\* C1: in deterministic mode an accepted candidate i ended BehaviorPresent and
\* every candidate j < i of its batch ended BehaviorNotPresent; and when the
\* lowest-index candidate that did not end BehaviorNotPresent ended
\* OutOfResources or Critical, no improving successor is returned but that
\* candidate's error message, also when a later candidate ended BehaviorPresent.
C1_DeterministicSubmissionOrder ==
  (deterministic /\ Returned) =>
    /\ improving_state.tag = "state" =>
         \E i \in task_ids :
           /\ improving_state.path = Append(current_state, Position(i))
           /\ tasks[i] = DONE_AND_BEHAVIOR_PRESENT
           /\ AllBeforeNotPresent(i)
    /\ \A i \in task_ids :
         (tasks[i] \in {OUT_OF_RESOURCES, CRITICAL} /\ AllBeforeNotPresent(i)) =>
           /\ improving_state = NoneState
           /\ message = ErrorMessage(IF tasks[i] = OUT_OF_RESOURCES
                                       THEN "out_of_resources" ELSE "critical",
                                     Position(i))

\* A deterministic batch whose first candidate ran out of resources while a
\* later one reported BehaviorPresent, and nothing was accepted.
C1_Witness ==
  /\ deterministic /\ Returned
  /\ 1 \in task_ids
  /\ tasks[0] = OUT_OF_RESOURCES
  /\ tasks[1] = DONE_AND_BEHAVIOR_PRESENT
  /\ improving_state = NoneState

\* C2: in eager mode the returned successor is the candidate whose
\* BehaviorPresent completion event was reported first.
C2_EagerFirstReportedWins ==
  (~deterministic /\ Returned /\ improving_state.tag = "state") =>
    /\ first_present # 0
    /\ improving_state.path = Append(current_state, Position(first_present - 1))

\* C3: in eager mode, when environment.run returned a batch in which some
\* candidate ended BehaviorPresent, the iteration returns an improving
\* successor (a BehaviorPresent candidate of that batch and its change
\* message), whatever number of candidates ended OutOfResources or Critical.
C3_EagerPresentIsReturned ==
  (/\ ~deterministic
   /\ pc # "running"
   /\ raised = "none"
   /\ \E i \in task_ids : tasks[i] = DONE_AND_BEHAVIOR_PRESENT) =>
    /\ pc = "tail"
    /\ \E i \in task_ids :
         /\ tasks[i] = DONE_AND_BEHAVIOR_PRESENT
         /\ improving_state = SomeState(Append(current_state, Position(i)))
         /\ message = ChangeMessage(Position(i))

\* An eager batch whose first candidate ended OutOfResources or Critical and
\* whose second one, ending BehaviorPresent, was accepted.
C3_Witness ==
  /\ ~deterministic /\ Returned
  /\ 1 \in task_ids
  /\ tasks[0] \in {OUT_OF_RESOURCES, CRITICAL}
  /\ tasks[1] = DONE_AND_BEHAVIOR_PRESENT
  /\ improving_state.tag = "state"

C6_DriverErrorTerminatesSearch ==
  terminating => ~started_after_error

\* Final statuses of a candidate that was evaluated and was not found to have
\* the property.
Evaluated == {DONE_AND_BEHAVIOR_NOT_PRESENT, OUT_OF_RESOURCES, CRITICAL}

\* The search has ended: it returned, raised or died of an uncaught exception.
Terminated ==
  pc \in {"returned", "raised_ValueError", "crashed_UnboundLocalError",
          "crashed_AssertionError"}

\* An upper bound on the steps an iteration still takes.
PcRank ==
  CASE pc = "verify" -> 5
    [] pc = "loop" -> 4
    [] pc = "running" -> 3
    [] pc = "batching" -> 2
    [] pc = "tail" -> 1
    [] OTHER -> 0
Measure ==
  PcRank + (batch_size + 2) * (Len(verdict) - pulled)
         + Cardinality({i \in task_ids : tasks[i] = PENDING})

\* The run so far is one in which the initial state was verified, no successor
\* was accepted and the driver raised no error.
NothingAccepted == accepted = 0 /\ errors = 0

\* C7: as long as no successor is accepted (and the environment raises no
\* error), the search of a verified initial state never gets stuck and never
\* raises, every step brings it closer to its end, and what it returns is the
\* initial state.
C7_ReturnsInitialState ==
  /\ [](NothingAccepted /\ initial_status = DONE_AND_BEHAVIOR_PRESENT =>
          /\ pc \notin {"raised_ValueError", "crashed_UnboundLocalError",
                        "crashed_AssertionError"}
          /\ pc = "returned" => current_state = <<>>
          /\ pc # "returned" => ENABLED Next)
  /\ [][NothingAccepted /\ NothingAccepted' => Measure' < Measure]_vars

\* The search returned the initial state after all the successors of a
\* non-empty stream were rejected.
C7_Witness ==
  /\ pc = "returned"
  /\ NothingAccepted
  /\ initial_status = DONE_AND_BEHAVIOR_PRESENT
  /\ current_state = <<>>
  /\ Len(verdict) = MaxSucc
  /\ \A k \in DOMAIN outcome : outcome[k] \in Evaluated

C9_DeterministicIsSequential ==
  deterministic =>
    /\ seq_state = current_state
    /\ pc = "returned" => seq_done
    /\ seq_done => pc \in {"tail", "returned"}

\* A deterministic search with batches of more than one candidate accepted a
\* successor that was not the first of its stream and returned that state.
C9_Witness ==
  /\ deterministic
  /\ batch_size > 1
  /\ pc = "returned"
  /\ seq_done
  /\ current_state # <<>>
  /\ current_state[1] > 1

\* C10 as stated: in both modes, when the iteration ends without an improving
\* successor, every candidate that ended OutOfResources is remembered and its
\* run_dir is in the message.
C10_OutOfResourcesReported ==
  (Returned /\ improving_state = NoneState) =>
    \A k \in DOMAIN outcome :
      outcome[k] = OUT_OF_RESOURCES =>
        k \in tasks_out_of_resources /\ k \in message.run_dirs

\* C10, amended: in eager mode, when the iteration ends without an improving
\* successor, every candidate that ended OutOfResources in any batch was
\* remembered and its run_dir is in the "no improving successor" message.  In
\* deterministic mode nothing is remembered: the iteration ends at the first
\* candidate that did not end BehaviorNotPresent, the message is that task's
\* error message with the deterministic note, and no list of run_dirs follows.
C10_OutOfResourcesReportedEager ==
  (Returned /\ improving_state = NoneState) =>
    IF deterministic
      THEN /\ tasks_out_of_resources = {}
           /\ message.run_dirs = {}
           /\ \A e \in DOMAIN outcome :
                (/\ outcome[e] # DONE_AND_BEHAVIOR_NOT_PRESENT
                 /\ \A k \in 1..(e - 1) : outcome[k] = DONE_AND_BEHAVIOR_NOT_PRESENT) =>
                  /\ outcome[e] \in {OUT_OF_RESOURCES, CRITICAL}
                  /\ message = ErrorMessage(IF outcome[e] = OUT_OF_RESOURCES
                                              THEN "out_of_resources" ELSE "critical", e)
      ELSE /\ message.kind = "no_improving"
           /\ \A k \in DOMAIN outcome :
                outcome[k] = OUT_OF_RESOURCES =>
                  k \in tasks_out_of_resources /\ k \in message.run_dirs

\* An eager iteration of two batches, each with a candidate that ran out of
\* resources, ended without an improving successor.
C10_Witness ==
  /\ ~deterministic
  /\ batch_size = 1
  /\ Returned
  /\ improving_state = NoneState
  /\ Len(outcome) = 2
  /\ \A k \in DOMAIN outcome : outcome[k] = OUT_OF_RESOURCES
  /\ message.run_dirs = {1, 2}

\* ----------------------------------------------------------------------
\* C12: _find_domain_filename returns the first existing file of domain.pddl,
\* <base>-domain<ext>, <first 3 characters of base>-domain.pddl,
\* domain_<base><ext>, domain-<base><ext>, whatever files exist and whatever
\* the base name is, base names shorter than 3 characters included.
C12_FirstExistingOfNamingRules ==
  d_pc = "found" =>
    domain_filename =
      FirstExisting(domain_basenames_airport_from_root(task_filename), existing)

\* ----------------------------------------------------------------------
\* C11: a shim started with a state blob leaves no temporary task file behind
\* once the process has ended, whether the predicate returned True, returned
\* False or raised an exception.
C11_TemporaryFilesRemoved ==
  (sh_pc = "exited" /\ Len(sh_argv) = 1 /\ sh_argv[1] = "blob") => sh_files = {}

\* ----------------------------------------------------------------------
\* C13: lifted mode, one task file that is no state blob, no candidate domain
\* file exists: the shim exits with the Critical exit code and the predicate
\* was never called.
C13_NoDomainFileIsCritical ==
  (/\ sh_pc = "exited"
   /\ sh_format = "pddl"
   /\ Len(sh_argv) = 1
   /\ sh_argv[1] = "task"
   /\ domain_basenames(task_filename)
        = SelectSeq(domain_basenames(task_filename), LAMBDA n : n \notin existing))
    => (sh_exit = EXIT_CODE_CRITICAL /\ sh_calls = <<>>)

\* ----------------------------------------------------------------------
\* C14: reading the text the writer emits for a valid task yields a task
\* equal to it field by field.
C14_ReadOfWriteIsIdentity ==
  (c_pc = "read" /\ c_malformed = "no") =>
    (c_result.err = "none" /\ c_result.val = c_task)

\* ----------------------------------------------------------------------
\* C15: on a file with a dropped, reordered or mismatched delimiter line or
\* with a count that does not match the lines that follow, _read_task fails
\* with ParseError: it returns no task and raises nothing else.
C15_MalformedFileRaisesParseError ==
  (c_pc = "read" /\ c_malformed # "no") => c_result.err = "ParseError"

\* ----------------------------------------------------------------------
\* C16: with a list of generators the stream of an iteration is g1(s) followed
\* by g2(s) ...; whatever position k ends the successors of a generator, no
\* successor after k is submitted before all successors up to k were tried.
\* A successor is in flight when it belongs to the batch handed to the
\* environment, and tried when its evaluation has ended.
InFlight(q) == pc = "running" /\ \E i \in task_ids : Position(i) = q

Tried(q) ==
  \/ outcome[q] \in Verdicts
  \/ \E i \in task_ids : Position(i) = q /\ tasks[i] \in Verdicts

NeedsBeyondAlphabet(t) ==
  \/ \E i \in 1..Len(t.variables) : t.variables[i].range > Len(alphabet)
  \/ Len(t.operators) > Len(alphabet)

C17_RenamesOrFailsTooLarge ==
  c_pc = "renamed" =>
    IF NeedsBeyondAlphabet(c_task)
      THEN c_result.err = "TooLarge"
      ELSE /\ c_result.err = "none"
           /\ \A i \in 1..Len(c_task.variables) :
                \A j \in 1..c_task.variables[i].range :
                  c_result.val.variables[i].value_names[j] = <<UPPER[j] \o py_str(i - 1)>>
           /\ \A i \in 1..Len(c_task.operators) :
                c_result.val.operators[i].name = <<"(", alphabet[i], ")">>

\* ----------------------------------------------------------------------
\* The evaluation of candidate i ends in this step and the callback is called.
CompletionEvent(i) ==
  /\ pc = "running"
  /\ i \in task_ids
  /\ tasks[i] = PENDING
  /\ tasks'[i] \in Verdicts

\* C18: in deterministic mode the callback, called for candidate i with a
\* status other than BehaviorNotPresent, requests the cancellation of exactly
\* the candidates j > i of the batch, and of none with BehaviorNotPresent.
C18_DeterministicCancelsLaterOnly ==
  [][\A i \in task_ids :
       (deterministic /\ CompletionEvent(i)) =>
         cancel_requested' =
           cancel_requested \cup
             (IF tasks'[i] = DONE_AND_BEHAVIOR_NOT_PRESENT
                THEN {}
                ELSE {j \in task_ids : j > i})]_vars

\* The first candidate of a deterministic batch of two has ended otherwise
\* than BehaviorNotPresent and the cancellation of the second is requested.
C18_Witness ==
  /\ deterministic
  /\ pc = "running"
  /\ task_ids = {0, 1}
  /\ tasks[0] \in Verdicts \ {DONE_AND_BEHAVIOR_NOT_PRESENT}
  /\ tasks[1] = PENDING
  /\ cancel_requested = {1}

\* ----------------------------------------------------------------------
\* C19: in eager mode the callback requests, on a BehaviorPresent completion
\* event, the cancellation of every peer that is still pending, and none on
\* an event with another status; after a BehaviorPresent event no peer of
\* the batch stays pending forever (unless polling the environment fails).
C19_EagerCancelsPendingPeers ==
  /\ [][\A i \in task_ids :
          (~deterministic /\ CompletionEvent(i)) =>
            IF tasks'[i] = DONE_AND_BEHAVIOR_PRESENT
              THEN {j \in task_ids : tasks'[j] = PENDING} \subseteq cancel_requested'
              ELSE cancel_requested' = cancel_requested]_vars
  /\ (~deterministic /\ pc = "running" /\ first_present # 0)
        ~> ((\A i \in task_ids : tasks[i] # PENDING) \/ raised = "PollingError")

\* The first candidate of an eager batch of two has ended BehaviorPresent and
\* the second, whose cancellation was requested, has reached Canceled.
C19_Witness ==
  /\ ~deterministic
  /\ pc = "running"
  /\ task_ids = {0, 1}
  /\ tasks[0] = DONE_AND_BEHAVIOR_PRESENT
  /\ tasks[1] = CANCELED
  /\ cancel_requested = {0, 1}

\* ----------------------------------------------------------------------
\* C20: a candidate keeps the terminal status it has reached, whatever is
\* requested afterwards; in eager mode the cancel set of a BehaviorPresent
\* event names every id of the batch, and the candidate of the first such
\* event (the winner) stays BehaviorPresent and is the one the scan returns.
C20_TerminalStatusKeptWinnerReturned ==
  /\ [][/\ pc = "running" =>
             \A i \in task_ids :
               tasks[i] # PENDING => (i \in DOMAIN tasks' /\ tasks'[i] = tasks[i])
        /\ \A i \in task_ids :
             (~deterministic /\ CompletionEvent(i) /\ tasks'[i] = DONE_AND_BEHAVIOR_PRESENT)
               => cancel_requested' = task_ids]_vars
  /\ [](( ~deterministic /\ Returned /\ first_present # 0) =>
          /\ tasks[first_present - 1] = DONE_AND_BEHAVIOR_PRESENT
          /\ improving_state = SomeState(Append(current_state, Position(first_present - 1))))

\* ----------------------------------------------------------------------
\* The statuses of a candidate whose evaluation is over.
TerminalStatuses == Verdicts \cup {CANCELED}

\* The for loop of _get_improving_successor hands its next batch to
\* environment.run in this step.
BatchSubmission == pc = "batching" /\ pulled' > pulled

\* C21: the batches of an iteration are processed in sequence: when a batch is
\* submitted, every candidate of the batch before it has a terminal status
\* and the scan of that batch has ended without accepting a successor (none
\* of its candidates ended BehaviorPresent).
C21_BatchesInSequence ==
  [][BatchSubmission =>
       \A i \in task_ids :
         /\ tasks[i] \in TerminalStatuses
         /\ tasks[i] # DONE_AND_BEHAVIOR_PRESENT
         /\ outcome[Position(i)] = tasks[i]]_vars

\* The second batch of an iteration is in flight, after a first batch that
\* was settled and scanned.
C21_Witness ==
  /\ pc = "running"
  /\ pulled > Cardinality(task_ids)
  /\ \E i \in task_ids : tasks[i] = PENDING
  /\ \A k \in 1..(pulled - Cardinality(task_ids)) :
       outcome[k] \in TerminalStatuses \ {DONE_AND_BEHAVIOR_PRESENT}

\* ----------------------------------------------------------------------
\* C22: when the evaluation of the initial state is observed Canceled the
\* search fails with an error and the hill-climbing loop is not entered.
C22_CanceledInitialFailsSearch ==
  initial_status = CANCELED => pc \in {"raised_ValueError", "crashed_AssertionError"}

\* ----------------------------------------------------------------------
\* C23: current_state only changes, in the tail of the loop body, to a
\* successor of current_state whose evaluation ended BehaviorPresent and
\* that the driver returned; every current state but the initial one was
\* accepted that way; and search returns current_state as it is when the
\* driver returns no improving state.
C23_CurrentStateIsAcceptedChain ==
  /\ [][current_state' # current_state =>
          /\ pc = "tail"
          /\ \E k \in 1..Len(verdict) :
               /\ current_state' = Append(current_state, k)
               /\ verdict[k] = DONE_AND_BEHAVIOR_PRESENT
               /\ outcome[k] = DONE_AND_BEHAVIOR_PRESENT
               /\ improving_state = [tag |-> "state", path |-> current_state']]_vars
  /\ [](current_state # <<>> => current_status = DONE_AND_BEHAVIOR_PRESENT)
  /\ [](Len(current_state) = accepted)
  /\ [][(pc # "returned" /\ pc' = "returned") =>
          /\ current_state' = current_state
          /\ improving_state.tag = NONE]_vars

\* The chain initial -> s1: the successor s1 was accepted, none of its own
\* successors was, and search has returned s1.
C23_Witness ==
  /\ pc = "returned"
  /\ Len(current_state) = 1
  /\ current_status = DONE_AND_BEHAVIOR_PRESENT
  /\ initial_status = DONE_AND_BEHAVIOR_PRESENT
  /\ improving_state.tag = NONE
  /\ verdict # <<>>

\* ----------------------------------------------------------------------
\* C24: the reader decodes the metric line, the line after begin_metric, as
\* a boolean: the task read from a written file has metric false when that
\* line is 0 and metric true when it is 1.
C24_MetricLineDecodedAsBoolean ==
  (c_pc = "read" /\ c_malformed = "no" /\ c_result.err = "none") =>
    /\ c_text[2] \in {<<"0">>, <<"1">>}
    /\ c_result.val.metric = (c_text[2] = <<"1">>)

\* ----------------------------------------------------------------------
\* C25: in deterministic mode, with an environment that cancels only the
\* candidates the callback named, every Canceled candidate of a batch has a
\* peer of lower index that ended BehaviorPresent, OutOfResources or
\* Critical, and the assertion of the scan (search.py:188) never fails.
C25_DeterministicAssertionHolds ==
  deterministic =>
    /\ pc # "crashed_AssertionError"
    /\ \A i \in task_ids :
         tasks[i] = CANCELED =>
           \E j \in task_ids :
             /\ j < i
             /\ tasks[j] \in {DONE_AND_BEHAVIOR_PRESENT, OUT_OF_RESOURCES, CRITICAL}

\* A deterministic batch with a Canceled candidate was scanned and the scan
\* has returned to search.
C25_Witness ==
  /\ deterministic
  /\ Returned
  /\ \E i \in task_ids : tasks[i] = CANCELED
  /\ improving_state.tag \in {"state", NONE}

\* ----------------------------------------------------------------------
\* C26: in one execution of the shim the predicate is called at most once,
\* and when the argument was loaded as a state blob it is only called on the
\* temporary files written from the state, also when it raises
\* FileNotFoundError or PickleError.
C26_PredicateCalledOnceOnTemporary ==
  /\ Len(sh_calls) <= 1
  /\ (Len(sh_argv) = 1 /\ read_state(sh_argv[1]) = "state") =>
       \A n \in 1..Len(sh_calls) : sh_calls[n].on = "temporary"

\* ----------------------------------------------------------------------
\* C27: the successor stream is consumed lazily.  Within an iteration
\* successors are only pulled by the for loop, at most batch_size at a time,
\* each once and in stream order, and only while no candidate of the batch
\* before was accepted (ended BehaviorPresent) and, in deterministic mode,
\* none ended OutOfResources or Critical; once the driver has returned,
\* nothing is pulled or submitted until the next iteration starts.
C27_StreamConsumedLazily ==
  [][/\ pulled' # pulled =>
          \/ pulled' = 0 /\ pc \in {"loop", "tail"}
          \/ /\ pc = "batching"
             /\ pulled' - pulled \in 1..batch_size
             /\ pulled' <= Len(verdict)
             /\ \A i \in task_ids :
                  /\ tasks[i] # DONE_AND_BEHAVIOR_PRESENT
                  /\ deterministic => tasks[i] \notin {OUT_OF_RESOURCES, CRITICAL}
     /\ pc' = "running" /\ pc # "running" =>
          /\ pc = "batching"
          /\ DOMAIN tasks' = 0..(pulled' - pulled - 1)
     /\ pc = "tail" => (pc' # "running" /\ pulled' \in {pulled, 0})]_vars

\* The driver has returned an accepted successor while successors are left
\* in the stream.
C27_Witness ==
  /\ Returned
  /\ improving_state.tag = "state"
  /\ message.kind = "change_msg"
  /\ 0 < pulled
  /\ pulled < Len(verdict)
  /\ \E i \in task_ids : tasks[i] = DONE_AND_BEHAVIOR_PRESENT

====
